---- MODULE Spec2Model ----
(***************************************************************************)
(* Model of gcsproxy (main.go): the per-request pipeline of proxy() run     *)
(* under wrapper(), for a set of requests handled concurrently.             *)
(*                                                                          *)
(* Text (flag values, metadata keys and values, header names and values,    *)
(* body pieces) is a sequence of string chunks; the empty text is <<>>.     *)
(* Flag values and metadata are sequences of one-character chunks, so that  *)
(* strings.Split and header-name canonicalisation are computed.             *)
(***************************************************************************)
EXTENDS Integers, Sequences, FiniteSets, Bags, TLC

\* ---------------------------------------------------------------- bounds
\* Largest whole second a timestamp or an If-Modified-Since date takes.
MaxSec == 1
\* Clock ticks per second (sub-second resolution of ObjectAttrs.Updated).
TicksPerSecond == 2
\* Largest object content, in bytes.
MaxLen == 2

\* ---------------------------------------------------------------- status codes
StatusOK == 200
StatusNotModified == 304
StatusNotFound == 404
StatusInternalServerError == 500

\* ---------------------------------------------------------------- errors
ErrObjectNotExist == "storage: object doesn't exist"
ErrBackend == "googleapi: backend failure"
ErrBlockIf == "unexpected block-if argument"
NoErr == "nil"

\* ---------------------------------------------------------------- text helpers
\* strings.Split(s, sep) for a one-character separator.
RECURSIVE Split(_, _)
Split(s, sep) ==
    IF \A i \in 1..Len(s) : s[i] # sep
    THEN <<s>>
    ELSE LET i == CHOOSE j \in 1..Len(s) :
                      s[j] = sep /\ \A h \in 1..(j - 1) : s[h] # sep
         IN  <<SubSeq(s, 1, i - 1)>> \o Split(SubSeq(s, i + 1, Len(s)), sep)

Digits == <<"0", "1", "2", "3", "4", "5", "6", "7", "8", "9">>

\* strconv.FormatInt(value, 10) for value >= 0.
RECURSIVE FormatInt(_)
FormatInt(n) ==
    IF n < 10 THEN <<Digits[n + 1]>>
    ELSE FormatInt(n \div 10) \o <<Digits[(n % 10) + 1]>>

DigitValue(c) == (CHOOSE d \in 1..10 : Digits[d] = c) - 1

RECURSIVE Atoi(_)
Atoi(s) ==
    IF Len(s) = 0 THEN 0
    ELSE 10 * Atoi(SubSeq(s, 1, Len(s) - 1)) + DigitValue(s[Len(s)])

IsNumber(s) ==
    /\ Len(s) > 0
    /\ \A i \in 1..Len(s) : \E d \in 1..10 : Digits[d] = s[i]

\* ---------------------------------------------------------------- time
\* A time is a number of ticks since the zero time.Time; ZeroTime is time.Time{}.
ZeroTime == 0
Times == 0..((MaxSec + 1) * TicksPerSecond - 1)

\* value.IsZero()
IsZero(t) == t = ZeroTime

\* t.Truncate(time.Second)
TruncateSecond(t) == t - (t % TicksPerSecond)

\* value.UTC().Format(http.TimeFormat): whole seconds only.
FormatHTTPTime(t) == <<"date:">> \o FormatInt(t \div TicksPerSecond)

\* http.ParseTime(text): the time and whether parsing failed; a failed parse
\* returns the zero time.Time.
ParseTime(text) ==
    IF Len(text) > 1 /\ text[1] = "date:" /\ IsNumber(Tail(text))
    THEN [t |-> Atoi(Tail(text)) * TicksPerSecond, err |-> FALSE]
    ELSE [t |-> ZeroTime, err |-> TRUE]

\* ---------------------------------------------------------------- headers
\* http.Header is a bag of <<name, value>> pairs: one pair per value of a name.
Letters == << <<"a", "A">>, <<"b", "B">>, <<"v", "V">>, <<"w", "W">> >>

ToUpper(c) ==
    IF \E i \in 1..Len(Letters) : Letters[i][1] = c
    THEN Letters[CHOOSE i \in 1..Len(Letters) : Letters[i][1] = c][2]
    ELSE c

ToLower(c) ==
    IF \E i \in 1..Len(Letters) : Letters[i][2] = c
    THEN Letters[CHOOSE i \in 1..Len(Letters) : Letters[i][2] = c][1]
    ELSE c

MetaPrefix == <<"X-Goog-Meta-">>

IsTokenChunk(c) == c \notin {":", ",", " "}
EndsWithDash(c) == c \in {"-", "X-Goog-Meta-"}

\* textproto.CanonicalMIMEHeaderKey, applied by Header.Add/Set/Del: the first
\* letter and every letter after a '-' in upper case, the others in lower case;
\* a name holding a non-token byte is left as it is.
CanonicalMIMEHeaderKey(s) ==
    IF \E i \in 1..Len(s) : ~IsTokenChunk(s[i])
    THEN s
    ELSE [i \in 1..Len(s) |->
            IF i = 1 \/ EndsWithDash(s[i - 1]) THEN ToUpper(s[i]) ELSE ToLower(s[i])]

HeaderAdd(h, key, value) == h (+) SetToBag({<<CanonicalMIMEHeaderKey(key), value>>})

HeaderDel(h, key) ==
    LET keep == {e \in BagToSet(h) : e[1] # CanonicalMIMEHeaderKey(key)}
    IN  [e \in keep |-> h[e]]

HeaderSet(h, key, value) == HeaderAdd(HeaderDel(h, key), key, value)

\* The values a header carries under a name, as a bag.
HeaderValues(h, key) ==
    LET hit == {e \in BagToSet(h) : e[1] = CanonicalMIMEHeaderKey(key)}
    IN  [e \in hit |-> h[e]]

\* ---------------------------------------------------------------- flags
\* The values the -block-if and -pass-through flags take (one-character chunks).
BlockIfFlags ==
    { <<>>,
      <<"a">>,
      <<"a", ":", "v">>,
      <<"a", ":">>,
      <<":">>,
      <<"A", ":", "v">>,
      <<"a", ":", "v", ":", "v">> }

PassthroughFlags ==
    { <<>>,
      <<"a">>,
      <<"A">>,
      <<"a", ",">>,
      <<"a", ",", "A">> }

\* ---------------------------------------------------------------- backend objects
MetaKeys == { <<"a">>, <<"A">> }
MetaValues == { <<>>, <<"v">> }

\* storage.ObjectAttrs.Metadata: a map from key to value.
MetaMaps == UNION { [D -> MetaValues] : D \in SUBSET MetaKeys }

Sample == <<"G", "C", "S", "!", "?">>
Contents == { SubSeq(Sample, 1, n) : n \in 0..MaxLen }

\* The string attributes of an object: all unset, or all set.
PlainProfile ==
    [ContentType |-> <<>>, ContentLanguage |-> <<>>, CacheControl |-> <<>>,
     ContentDisposition |-> <<>>, ContentEncoding |-> <<>>]
FullProfile ==
    [ContentType |-> <<"text/plain">>, ContentLanguage |-> <<"en">>,
     CacheControl |-> <<"no-cache">>, ContentDisposition |-> <<"inline">>,
     ContentEncoding |-> <<"gzip">>]
Profiles == {PlainProfile, FullProfile}

\* storage.ObjectAttrs together with the bytes stored for the object.
MkObject(md, u, c, p) ==
    [Metadata |-> md, Updated |-> u, Content |-> c,
     ContentType |-> p.ContentType, ContentLanguage |-> p.ContentLanguage,
     CacheControl |-> p.CacheControl, ContentDisposition |-> p.ContentDisposition,
     ContentEncoding |-> p.ContentEncoding]

Objects ==
    { MkObject(md, u, c, p) : md \in MetaMaps, u \in Times, c \in Contents, p \in Profiles }

\* The If-Modified-Since values of a request: the header's list of values.
IfModifiedSinceValues ==
    { <<>>, << <<"junk">> >> } \cup { << FormatHTTPTime(s * TicksPerSecond) >> : s \in 0..MaxSec }

\* A request names an object of the bucket (<<o>>) or an object that does not
\* exist (<<>>), and carries its If-Modified-Since header.
RequestInputs ==
    [object : {<<>>} \cup { <<o>> : o \in Objects }, ifModifiedSince : IfModifiedSinceValues]

\* The inputs of the requests handled concurrently: a few objects and headers.
ConcObjects ==
    { MkObject(md, u, SubSeq(Sample, 1, 1), PlainProfile) :
        md \in { [k \in {<<"a">>} |-> <<"v">>], [k \in {<<"a">>} |-> <<"w">>] },
        u \in {TicksPerSecond} }
ConcInputs ==
    [object : {<<>>} \cup { <<o>> : o \in ConcObjects },
     ifModifiedSince : { <<>>, << FormatHTTPTime(TicksPerSecond) >> }]

\* ---------------------------------------------------------------- state
VARIABLES
    blockIfMeta,      \* *blockIfMeta, the -block-if flag
    passthroughMeta,  \* *passthroughMeta, the -pass-through flag
    req,              \* per request: the object named and the request header
    pc,               \* per request: the handler's position
    attr,             \* per request: proxy's attr, <<>> before obj.Attrs returned
    objr,             \* per request: proxy's objr, the reader
    writer,           \* per request: wrapper's writer and the response behind it
    ops,              \* per request: the pipeline steps taken, in order
    result            \* per request: what the backend answered

vars == <<blockIfMeta, passthroughMeta, req, pc, attr, objr, writer, ops, result>>

Requests == DOMAIN pc

\* ---------------------------------------------------------------- response writer
\* wrapper(), lines 84-87: the writer wraps a response nothing was written to.
NewWriter ==
    [status |-> StatusOK, sent |-> 0, headerWrites |-> 0,
     header |-> EmptyBag, body |-> <<>>]

\* The embedded http.ResponseWriter's WriteHeader: the first status is sent.
ResponseWriteHeader(w, status) ==
    [w EXCEPT !.sent = IF @ = 0 THEN status ELSE @, !.headerWrites = @ + 1]

\* WriteHeader without line 78: the status is passed on and not kept.
WriteHeaderUnrecorded(w, status) == ResponseWriteHeader(w, status)

\* wrapResponseWriter.WriteHeader
WriteHeader(w, status) ==
    [ResponseWriteHeader(w, status) EXCEPT !.status = status]

\* The embedded http.ResponseWriter's Write (wrapResponseWriter does not
\* override it): a first write sends status 200 implicitly.
Write(w, data) ==
    LET w1 == IF w.sent = 0 THEN ResponseWriteHeader(w, StatusOK) ELSE w
    IN  [w1 EXCEPT !.body = @ \o data]

\* http.Error(w, text, code)
HttpError(w, text, code) ==
    LET h1 == HeaderSet(w.header, <<"Content-Type">>, <<"text/plain; charset=utf-8">>)
        h2 == HeaderSet(h1, <<"X-Content-Type-Options">>, <<"nosniff">>)
    IN  Write(WriteHeader([w EXCEPT !.header = h2], code), <<text, "\n">>)

\* handleError without the ErrObjectNotExist case.
handleErrorAlways500(w, err) ==
    IF err # NoErr THEN HttpError(w, err, StatusInternalServerError) ELSE w

handleError(w, err) ==
    IF err # NoErr
    THEN IF err = ErrObjectNotExist
         THEN HttpError(w, err, StatusNotFound)
         ELSE HttpError(w, err, StatusInternalServerError)
    ELSE w

setStrHeader(w, key, value) ==
    IF value # <<>> THEN [w EXCEPT !.header = HeaderAdd(@, key, value)] ELSE w

setIntHeader(w, key, value) ==
    IF value > 0 THEN [w EXCEPT !.header = HeaderAdd(@, key, FormatInt(value))] ELSE w

setTimeHeader(w, key, value) ==
    IF ~IsZero(value)
    THEN [w EXCEPT !.header = HeaderAdd(@, key, FormatHTTPTime(value))]
    ELSE w

\* ---------------------------------------------------------------- proxy's helpers
\* parseBlockIfMeta rejecting only a value of more than two parts.
parseBlockIfMetaLenient ==
    LET parts == Split(blockIfMeta, ":")
    IN  IF Len(parts) > 2
        THEN [key |-> <<>>, value |-> <<>>, err |-> ErrBlockIf]
        ELSE IF Len(parts) = 2
        THEN [key |-> parts[1], value |-> parts[2], err |-> NoErr]
        ELSE [key |-> parts[1], value |-> <<"true">>, err |-> NoErr]

parseBlockIfMeta ==
    LET parts == Split(blockIfMeta, ":")
    IN  IF Len(parts) # 2
        THEN [key |-> <<>>, value |-> <<>>, err |-> ErrBlockIf]
        ELSE [key |-> parts[1], value |-> parts[2], err |-> NoErr]

\* attr.Metadata[key]: a missing key reads as the empty string.
MetadataAt(md, key) == IF key \in DOMAIN md THEN md[key] ELSE <<>>

\* isBlocked with the two-value map read: a missing key never matches.
isBlockedIfPresent(a) ==
    LET p == parseBlockIfMeta
    IN  IF p.err # NoErr
        THEN [blocked |-> FALSE, err |-> p.err]
        ELSE [blocked |-> p.key \in DOMAIN a.Metadata /\ a.Metadata[p.key] = p.value,
              err |-> NoErr]

isBlocked(a) ==
    LET p == parseBlockIfMeta
    IN  IF p.err # NoErr
        THEN [blocked |-> FALSE, err |-> p.err]
        ELSE [blocked |-> MetadataAt(a.Metadata, p.key) = p.value, err |-> NoErr]

parsePassthroughMeta ==
    LET metas == Split(passthroughMeta, ",")
    IN  { metas[i] : i \in 1..Len(metas) }

\* The range loop of writeMetadataHeaders over the keys left, in any order.
RECURSIVE RangeMetadata(_, _, _)
RangeMetadata(keys, a, w) ==
    IF keys = {} THEN w
    ELSE LET k == CHOOSE x \in keys : TRUE
         IN  RangeMetadata(keys \ {k}, a,
                 IF k \in parsePassthroughMeta
                 THEN setStrHeader(w, MetaPrefix \o k, a.Metadata[k])
                 ELSE w)

\* The range loop without the passthrough test: every key becomes a header.
RECURSIVE RangeAllMetadata(_, _, _)
RangeAllMetadata(keys, a, w) ==
    IF keys = {} THEN w
    ELSE LET k == CHOOSE x \in keys : TRUE
         IN  RangeAllMetadata(keys \ {k}, a, setStrHeader(w, MetaPrefix \o k, a.Metadata[k]))

writeAllMetadataHeaders(a, w) == RangeAllMetadata(DOMAIN a.Metadata, a, w)

writeMetadataHeaders(a, w) == RangeMetadata(DOMAIN a.Metadata, a, w)

\* The comparison of line 133 without its negation.
NotModifiedNegated(a, lastStrs) ==
    /\ Len(lastStrs) > 0
    /\ TruncateSecond(a.Updated) > ParseTime(lastStrs[1]).t

\* Lines 128-133: an If-Modified-Since value is there and attr.Updated,
\* truncated to the second, is not after the time parsed from it.
NotModified(a, lastStrs) ==
    /\ Len(lastStrs) > 0
    /\ ~(TruncateSecond(a.Updated) > ParseTime(lastStrs[1]).t)

\* obj.NewReader: the reader's own attributes and its position in the content.
NewReader(o) ==
    [Attrs |-> [ContentEncoding |-> o.ContentEncoding, Size |-> Len(o.Content)],
     data |-> o.Content, pos |-> 0]
NoReader == [Attrs |-> [ContentEncoding |-> <<>>, Size |-> 0], data |-> <<>>, pos |-> 0]

\* Lines 143-149: the headers set once the reader is open.
ContentHeaders(a, rd, w) ==
    LET w1 == setTimeHeader(w, <<"Last-Modified">>, a.Updated)
        w2 == setStrHeader(w1, <<"Content-Type">>, a.ContentType)
        w3 == setStrHeader(w2, <<"Content-Language">>, a.ContentLanguage)
        w4 == setStrHeader(w3, <<"Cache-Control">>, a.CacheControl)
        w5 == setStrHeader(w4, <<"Content-Encoding">>, rd.Attrs.ContentEncoding)
        w6 == setStrHeader(w5, <<"Content-Disposition">>, a.ContentDisposition)
    IN  setIntHeader(w6, <<"Content-Length">>, rd.Attrs.Size)

\* When the handler returns, the server sends status 200 if none was sent.
FinishResponse(w) == IF w.sent = 0 THEN ResponseWriteHeader(w, StatusOK) ELSE w

\* ---------------------------------------------------------------- the backend
\* What obj.Attrs can return for the object a request names: the object's
\* attributes or a backend failure; ErrObjectNotExist for an object not there.
AttrsErrors(object) ==
    IF object = <<>> THEN {ErrObjectNotExist, ErrBackend} ELSE {NoErr, ErrBackend}

\* What obj.NewReader can return: a reader, or an error (the object may have
\* been deleted since its attributes were read).
ReaderErrors == {NoErr, ErrObjectNotExist, ErrBackend}

\* ---------------------------------------------------------------- proxy's locals
\* attr as a package-level variable: one value for every handler.
SetAttrShared(r, a) == [q \in DOMAIN attr |-> <<a>>]

\* attr, err := obj.Attrs(ctx): attr is a local of the request's handler.
SetAttr(r, a) == [attr EXCEPT ![r] = <<a>>]

\* objr, err := obj.NewReader(ctx): objr is a local of the request's handler.
SetReader(r, rd) == [objr EXCEPT ![r] = rd]

Step(r, name) == [ops EXCEPT ![r] = Append(@, name)]
Goto(r, label) == [pc EXCEPT ![r] = label]

\* ---------------------------------------------------------------- initial states
InitWith(ids, inputs) ==
    /\ blockIfMeta \in BlockIfFlags
    /\ passthroughMeta \in PassthroughFlags
    /\ req \in [ids -> inputs]
    /\ pc = [r \in ids |-> "attrs"]
    /\ attr = [r \in ids |-> <<>>]
    /\ objr = [r \in ids |-> NoReader]
    /\ writer = [r \in ids |-> NewWriter]
    /\ ops = [r \in ids |-> <<>>]
    /\ result = [r \in ids |-> [attrsErr |-> "pending", openErr |-> "pending",
                                copyErr |-> FALSE]]

\* One request, over all the objects and headers.
Init == InitWith({1}, RequestInputs)

\* Two requests handled concurrently.
InitConc == InitWith({1, 2}, ConcInputs)

\* ---------------------------------------------------------------- proxy, step by step
\* Lines 106-113: the attribute fetch.
FetchAttrs(r) ==
    /\ pc[r] = "attrs"
    /\ \E err \in AttrsErrors(req[r].object) :
         /\ result' = [result EXCEPT ![r].attrsErr = err]
         /\ IF err # NoErr
            THEN /\ writer' = [writer EXCEPT ![r] = handleError(@, err)]
                 /\ pc' = Goto(r, "ret")
                 /\ UNCHANGED attr
            ELSE /\ attr' = SetAttr(r, req[r].object[1])
                 /\ pc' = Goto(r, "block")
                 /\ UNCHANGED writer
    /\ ops' = Step(r, "attrs")
    /\ UNCHANGED <<blockIfMeta, passthroughMeta, req, objr>>

\* Lines 114-125: the block rule.
EvalBlock(r) ==
    /\ pc[r] = "block"
    /\ LET b == isBlocked(attr[r][1])
       IN  IF b.err # NoErr
           THEN /\ writer' = [writer EXCEPT ![r] = handleError(@, b.err)]
                /\ pc' = Goto(r, "ret")
           ELSE IF b.blocked
           THEN /\ writer' = [writer EXCEPT ![r] = WriteHeader(@, StatusNotFound)]
                /\ pc' = Goto(r, "ret")
           ELSE /\ pc' = Goto(r, "meta")
                /\ UNCHANGED writer
    /\ ops' = Step(r, "block")
    /\ UNCHANGED <<blockIfMeta, passthroughMeta, req, attr, objr, result>>

\* Line 126: the passthrough metadata headers.
WriteMeta(r) ==
    /\ pc[r] = "meta"
    /\ writer' = [writer EXCEPT ![r] = writeMetadataHeaders(attr[r][1], @)]
    /\ pc' = Goto(r, "cond")
    /\ ops' = Step(r, "meta")
    /\ UNCHANGED <<blockIfMeta, passthroughMeta, req, attr, objr, result>>

\* The conditional GET without the return of line 135.
CondGetNoReturn(r) ==
    /\ pc[r] = "cond"
    /\ IF NotModified(attr[r][1], req[r].ifModifiedSince)
       THEN writer' = [writer EXCEPT ![r] = WriteHeader(@, StatusNotModified)]
       ELSE UNCHANGED writer
    /\ pc' = [pc EXCEPT ![r] = "open"]
    /\ ops' = [ops EXCEPT ![r] = Append(@, "cond")]
    /\ UNCHANGED <<blockIfMeta, passthroughMeta, req, attr, objr, result>>

\* Lines 128-137: the conditional GET.
CondGet(r) ==
    /\ pc[r] = "cond"
    /\ IF NotModified(attr[r][1], req[r].ifModifiedSince)
       THEN /\ writer' = [writer EXCEPT ![r] = WriteHeader(@, StatusNotModified)]
            /\ pc' = Goto(r, "ret")
       ELSE /\ pc' = Goto(r, "open")
            /\ UNCHANGED writer
    /\ ops' = Step(r, "cond")
    /\ UNCHANGED <<blockIfMeta, passthroughMeta, req, attr, objr, result>>

\* Lines 138-149: the stream open and the content headers.
OpenReader(r) ==
    /\ pc[r] = "open"
    /\ \E err \in ReaderErrors :
         /\ result' = [result EXCEPT ![r].openErr = err]
         /\ IF err # NoErr
            THEN /\ writer' = [writer EXCEPT ![r] = handleError(@, err)]
                 /\ pc' = Goto(r, "ret")
                 /\ UNCHANGED objr
            ELSE /\ objr' = SetReader(r, NewReader(attr[r][1]))
                 /\ writer' = [writer EXCEPT ![r] =
                                  ContentHeaders(attr[r][1], NewReader(attr[r][1]), @)]
                 /\ pc' = Goto(r, "copy")
    /\ ops' = Step(r, "open")
    /\ UNCHANGED <<blockIfMeta, passthroughMeta, req, attr>>

\* A single read and write in place of io.Copy's loop.
CopyOneChunk(r) ==
    /\ pc[r] = "copy"
    /\ IF objr[r].pos < Len(objr[r].data)
       THEN /\ writer' = [writer EXCEPT ![r] = Write(@, <<objr[r].data[objr[r].pos + 1]>>)]
            /\ objr' = [objr EXCEPT ![r].pos = @ + 1]
       ELSE UNCHANGED <<writer, objr>>
    /\ pc' = [pc EXCEPT ![r] = "ret"]
    /\ ops' = [ops EXCEPT ![r] = Append(@, "copy")]
    /\ UNCHANGED <<blockIfMeta, passthroughMeta, req, attr, result>>

\* Line 150, io.Copy: one read of the reader; the bytes read are written to
\* the response, and the end of the data ends the copy.
CopyChunk(r) ==
    /\ pc[r] = "copy"
    /\ IF objr[r].pos < Len(objr[r].data)
       THEN /\ writer' = [writer EXCEPT ![r] = Write(@, <<objr[r].data[objr[r].pos + 1]>>)]
            /\ objr' = [objr EXCEPT ![r].pos = @ + 1]
            /\ pc' = pc
       ELSE /\ pc' = Goto(r, "ret")
            /\ UNCHANGED <<writer, objr>>
    /\ ops' = IF ops[r] # <<>> /\ ops[r][Len(ops[r])] = "copy" THEN ops ELSE Step(r, "copy")
    /\ UNCHANGED <<blockIfMeta, passthroughMeta, req, attr, result>>

\* Line 150, io.Copy: a read of the reader or a write to the client fails;
\* the copy stops and its error is dropped.
CopyFail(r) ==
    /\ pc[r] = "copy"
    /\ result' = [result EXCEPT ![r].copyErr = TRUE]
    /\ pc' = Goto(r, "ret")
    /\ ops' = IF ops[r] # <<>> /\ ops[r][Len(ops[r])] = "copy" THEN ops ELSE Step(r, "copy")
    /\ UNCHANGED <<blockIfMeta, passthroughMeta, req, attr, objr, writer>>

\* wrapper(), lines 88-102: fn returned; the response is finished and
\* writer.status is what the access log reports.
Return(r) ==
    /\ pc[r] = "ret"
    /\ writer' = [writer EXCEPT ![r] = FinishResponse(@)]
    /\ pc' = Goto(r, "done")
    /\ UNCHANGED <<blockIfMeta, passthroughMeta, req, attr, objr, ops, result>>

Next ==
    \/ \E r \in Requests : FetchAttrs(r)
    \/ \E r \in Requests : EvalBlock(r)
    \/ \E r \in Requests : WriteMeta(r)
    \/ \E r \in Requests : CondGet(r)
    \/ \E r \in Requests : OpenReader(r)
    \/ \E r \in Requests : CopyChunk(r)
    \/ \E r \in Requests : CopyFail(r)
    \/ \E r \in Requests : Return(r)

Spec == Init /\ [][Next]_vars

SpecConc == InitConc /\ [][Next]_vars

\* ---------------------------------------------------------------- proxy, as one function
\* proxy() run from its first line to its return for one request on its own,
\* given what the backend answers: the error of obj.Attrs, the error of
\* obj.NewReader and the number of bytes io.Copy moved before it stopped.
ProxyAlone(q, attrsErr, openErr, copied) ==
    IF attrsErr # NoErr THEN handleError(NewWriter, attrsErr)
    ELSE
    LET a == q.object[1]
        b == isBlocked(a)
    IN  IF b.err # NoErr THEN handleError(NewWriter, b.err)
        ELSE IF b.blocked THEN WriteHeader(NewWriter, StatusNotFound)
        ELSE
        LET w1 == writeMetadataHeaders(a, NewWriter)
        IN  IF NotModified(a, q.ifModifiedSince) THEN WriteHeader(w1, StatusNotModified)
            ELSE IF openErr # NoErr THEN handleError(w1, openErr)
            ELSE
            LET w2 == ContentHeaders(a, NewReader(a), w1)
            IN  IF copied = 0 THEN w2 ELSE Write(w2, SubSeq(a.Content, 1, copied))

\* ================================================================ claims
Finished(r) == pc[r] \in {"ret", "done"}
Done(r) == pc[r] = "done"

\* The -block-if value read as the claims read it: it holds exactly one ':'.
Colons == { i \in 1..Len(blockIfMeta) : blockIfMeta[i] = ":" }
RuleWellFormed == Cardinality(Colons) = 1
RuleKey == SubSeq(blockIfMeta, 1, (CHOOSE i \in Colons : TRUE) - 1)
RuleValue == SubSeq(blockIfMeta, (CHOOSE i \in Colons : TRUE) + 1, Len(blockIfMeta))

\* The object of a request whose attribute fetch succeeded.
Fetched(r) == result[r].attrsErr = NoErr
Object(r) == req[r].object[1]
RuleMatches(r) ==
    /\ RuleWellFormed
    /\ (IF RuleKey \in DOMAIN Object(r).Metadata
        THEN Object(r).Metadata[RuleKey] ELSE <<>>) = RuleValue
Unblocked(r) == Fetched(r) /\ RuleWellFormed /\ ~RuleMatches(r)

\* The -pass-through value read as the claims read it: the pieces between commas.
Commas == { i \in 1..Len(passthroughMeta) : passthroughMeta[i] = "," }
PassthroughSet ==
    { SubSeq(passthroughMeta, i + 1, j - 1) :
        <<i, j>> \in { p \in (Commas \cup {0}) \X (Commas \cup {Len(passthroughMeta) + 1}) :
                         /\ p[1] < p[2]
                         /\ \A c \in Commas : ~(p[1] < c /\ c < p[2]) } }

\* The If-Modified-Since header of a request, read as the claims read it.
HasDate(r) ==
    /\ req[r].ifModifiedSince # <<>>
    /\ req[r].ifModifiedSince[1][1] = "date:"
HasJunk(r) ==
    /\ req[r].ifModifiedSince # <<>>
    /\ req[r].ifModifiedSince[1][1] # "date:"
\* The date's second, in ticks.
DateTicks(r) ==
    (CHOOSE s \in 0..(MaxSec + 1) : FormatHTTPTime(s * TicksPerSecond) = req[r].ifModifiedSince[1])
        * TicksPerSecond
\* The object's last-modified time truncated to whole seconds.
LastModifiedSecond(r) == (Object(r).Updated \div TicksPerSecond) * TicksPerSecond

AttrHeaderNames ==
    { <<"Last-Modified">>, <<"Content-Type">>, <<"Content-Language">>, <<"Cache-Control">>,
      <<"Content-Disposition">>, <<"Content-Encoding">>, <<"Content-Length">> }
AttrHeaders(w) == { e \in BagToSet(w.header) : e[1] \in AttrHeaderNames }
MetaHeaders(w) == { e \in BagToSet(w.header) : e[1][1] = "X-Goog-Meta-" }

\* ---------------------------------------------------------------- C1
\* C1: when the block rule is well formed and the object's metadata value under
\* the rule key (the empty string for a missing key) equals the rule value, a
\* request whose attribute fetch succeeded ends with status 404, an empty body
\* and no passthrough or attribute-derived header, whatever If-Modified-Since is.
C1_BlockedIs404 ==
    \A r \in Requests :
        (Done(r) /\ Fetched(r) /\ RuleMatches(r)) =>
            /\ writer[r].sent = StatusNotFound
            /\ writer[r].body = <<>>
            /\ MetaHeaders(writer[r]) = {}
            /\ AttrHeaders(writer[r]) = {}

\* A blocked object with a passthrough key set, asked for with a date at or
\* after its last-modified time, has been answered.
C1_Witness ==
    \E r \in Requests :
        /\ Done(r) /\ Fetched(r) /\ RuleMatches(r)
        /\ HasDate(r) /\ DateTicks(r) >= LastModifiedSecond(r)
        /\ \E k \in DOMAIN Object(r).Metadata :
              k \in PassthroughSet /\ Object(r).Metadata[k] # <<>>
        /\ Object(r).ContentType # <<>>

\* ---------------------------------------------------------------- C2
\* The premise of C2: an existing object the well-formed rule does not match,
\* If-Modified-Since absent or a date strictly before the last-modified second,
\* and a stream that opened.
C2_Premise(r) ==
    /\ Done(r)
    /\ Unblocked(r)
    /\ \/ req[r].ifModifiedSince = <<>>
       \/ HasDate(r) /\ DateTicks(r) < LastModifiedSecond(r)
    /\ result[r].openErr = NoErr

C3_NotModifiedBare ==
    \A r \in Requests :
        (Done(r) /\ Unblocked(r) /\ HasDate(r) /\ DateTicks(r) >= LastModifiedSecond(r)) =>
            /\ writer[r].sent = StatusNotModified
            /\ writer[r].body = <<>>
            /\ AttrHeaders(writer[r]) = {}
            /\ MetaHeaders(writer[r]) = {}

\* ---------------------------------------------------------------- C4
\* C4: for an unblocked existing object, whatever its last-modified time (the
\* zero time included), an If-Modified-Since value that is no HTTP date is
\* never answered 304, and when the stream opens and the copy runs to its end
\* the response is 200 with the full content.
C4_JunkDateIgnored ==
    \A r \in Requests :
        (Done(r) /\ Unblocked(r) /\ HasJunk(r)) =>
            /\ writer[r].sent # StatusNotModified
            /\ (result[r].openErr = NoErr /\ ~result[r].copyErr) =>
                   /\ writer[r].sent = StatusOK
                   /\ writer[r].body = Object(r).Content

\* ---------------------------------------------------------------- C5
\* The metadata keys of a request's object that are in the PassthroughSet.
PassedKeys(r) == { k \in DOMAIN Object(r).Metadata : k \in PassthroughSet }
MetaName(k) == CanonicalMIMEHeaderKey(MetaPrefix \o k)

\* C5 as stated: in a 200 response every metadata key in the PassthroughSet,
\* whatever its value, has exactly one header X-Goog-Meta-<key> carrying the
\* metadata value, and no prefixed header belongs to a key outside the set.
C5_Original ==
    \A r \in Requests :
        (Done(r) /\ writer[r].sent = StatusOK) =>
            /\ \A k \in PassedKeys(r) :
                 /\ BagCardinality(HeaderValues(writer[r].header, MetaName(k))) = 1
                 /\ BagIn(<<MetaName(k), Object(r).Metadata[k]>>, writer[r].header)
            /\ \A e \in MetaHeaders(writer[r]) : \E k \in PassedKeys(r) : e[1] = MetaName(k)

\* The header lines owed to the keys of a request's object that are in the
\* PassthroughSet and have a value that is not empty.
OwedHeaders(r) ==
    { <<MetaName(k), Object(r).Metadata[k]>> :
        k \in { x \in PassedKeys(r) : Object(r).Metadata[x] # <<>> } }
OwedCopies(r, e) ==
    Cardinality({ k \in PassedKeys(r) :
                    Object(r).Metadata[k] # <<>> /\ <<MetaName(k), Object(r).Metadata[k]>> = e })

\* C5 (amended): in a 200 response the prefixed headers are exactly one header
\* line X-Goog-Meta-<key> (the name in canonical header case) carrying the
\* metadata value for each metadata key that is in the PassthroughSet and whose
\* value is not empty; a key outside the set, or with an empty value, has none.
C5_PassthroughHeaders ==
    \A r \in Requests :
        (Done(r) /\ writer[r].sent = StatusOK) =>
            /\ MetaHeaders(writer[r]) = OwedHeaders(r)
            /\ \A e \in OwedHeaders(r) : CopiesIn(e, writer[r].header) = OwedCopies(r, e)

\* A 200 response for an object with one key passed through and one key kept back.
C5_Witness ==
    \E r \in Requests :
        /\ Done(r) /\ writer[r].sent = StatusOK
        /\ OwedHeaders(r) # {}
        /\ \E k \in DOMAIN Object(r).Metadata :
              k \notin PassthroughSet /\ Object(r).Metadata[k] # <<>>

\* ---------------------------------------------------------------- C6
\* The response handleError owes to an error: 404 for the object-does-not-exist
\* error, 500 for any other, and the error text (a line) as body.
ErrorStatus(err) ==
    IF err = ErrObjectNotExist THEN StatusNotFound ELSE StatusInternalServerError
IsError(err) == err \notin {NoErr, "pending"}

\* C6: when the attribute fetch or the stream open fails, the request ends at
\* that step with 404 and the error text as body for the object-does-not-exist
\* error, and with 500 and the error text as body for any other error.
C6_BackendErrors ==
    \A r \in Requests :
        /\ (Finished(r) /\ IsError(result[r].attrsErr)) =>
              /\ writer[r].sent = ErrorStatus(result[r].attrsErr)
              /\ writer[r].body = <<result[r].attrsErr, "\n">>
              /\ ops[r][Len(ops[r])] = "attrs"
        /\ (Finished(r) /\ IsError(result[r].openErr)) =>
              /\ writer[r].sent = ErrorStatus(result[r].openErr)
              /\ writer[r].body = <<result[r].openErr, "\n">>
              /\ ops[r][Len(ops[r])] = "open"
        /\ (IsError(result[r].attrsErr) \/ IsError(result[r].openErr)) => Finished(r)

\* A stream open that failed with the object-does-not-exist error was answered.
C6_Witness ==
    \E r \in Requests :
        /\ Done(r)
        /\ result[r].openErr = ErrObjectNotExist
        /\ writer[r].sent = StatusNotFound

C8_Isolation ==
    \A r \in Requests :
        Done(r) =>
            writer[r] = FinishResponse(ProxyAlone(req[r], result[r].attrsErr,
                                                  result[r].openErr, objr[r].pos))

\* Two requests for different objects are both answered 200, with different
\* headers.
C8_Witness ==
    \E r1 \in Requests : \E r2 \in Requests \ {r1} :
        /\ Done(r1) /\ Done(r2)
        /\ req[r1].object # req[r2].object
        /\ writer[r1].sent = StatusOK /\ writer[r2].sent = StatusOK
        /\ writer[r1].header # writer[r2].header

\* ---------------------------------------------------------------- C9
Pipeline == <<"attrs", "block", "meta", "cond", "open", "copy">>
IsPrefix(s, t) == Len(s) <= Len(t) /\ s = SubSeq(t, 1, Len(s))
Took(r, name) == \E i \in 1..Len(ops[r]) : ops[r][i] = name

\* C9: the steps of a request are taken in the order attribute fetch, block
\* evaluation, (metadata headers,) conditional GET, stream open, byte copy, each
\* at most once; the stream is opened only after the fetch succeeded, the rule
\* did not block and no 304 was answered; and a request answered 404 (missing
\* or blocked), 304 or 500 for a malformed rule takes no step after the one
\* that decided it.
C9_PipelineOrder ==
    \A r \in Requests :
        /\ IsPrefix(ops[r], Pipeline)
        /\ Took(r, "open") =>
              /\ Unblocked(r)
              /\ writer[r].sent # StatusNotModified
        /\ (Finished(r) /\ result[r].attrsErr = ErrObjectNotExist) => ops[r] = <<"attrs">>
        /\ (Finished(r) /\ Fetched(r) /\ ~RuleWellFormed) => ops[r] = <<"attrs", "block">>
        /\ (Finished(r) /\ Fetched(r) /\ RuleMatches(r)) => ops[r] = <<"attrs", "block">>
        /\ (Finished(r) /\ writer[r].sent = StatusNotModified) =>
              ops[r] = <<"attrs", "block", "meta", "cond">>

\* A request answered 304 is finished, after the conditional GET.
C9_Witness ==
    \E r \in Requests :
        /\ Done(r)
        /\ writer[r].sent = StatusNotModified
        /\ ops[r][Len(ops[r])] = "cond"

\* ---------------------------------------------------------------- C10
\* C10: a request's status is written at most once, and once the handler has
\* returned the status the wrapper holds is the status sent to the client:
\* the one written explicitly, or 200 sent by the first body write or by the
\* return of a handler that wrote nothing.
C10_StatusOnce ==
    \A r \in Requests :
        /\ writer[r].headerWrites <= 1
        /\ writer[r].sent # 0 => writer[r].status = writer[r].sent
        /\ Done(r) =>
              /\ writer[r].headerWrites = 1
              /\ writer[r].status = writer[r].sent
              /\ writer[r].sent \in
                   {StatusOK, StatusNotModified, StatusNotFound, StatusInternalServerError}

\* A blocked object was answered 404 by an explicit WriteHeader.
C10_Witness ==
    \E r \in Requests :
        /\ Done(r) /\ Fetched(r) /\ RuleMatches(r)
        /\ writer[r].status = StatusNotFound
        /\ writer[r].headerWrites = 1

====
